---- MODULE Spec2Model ----
(***************************************************************************)
(* iyes_cli: the table of "console commands" (CliCommands) and the         *)
(* parse-and-dispatch routine World::run_cli, over Bevy one-shot systems.  *)
(*                                                                         *)
(* A command line is a sequence of characters.  A command name and an      *)
(* argument are tokens: non-empty sequences of non-whitespace characters.  *)
(* A handler is a Bevy system registered with World::register_system; it   *)
(* is identified by its SystemId, a positive number, and None stands for   *)
(* Option::None.                                                           *)
(***************************************************************************)
EXTENDS Integers, Sequences, FiniteSets, TLC

\* Bounds of the model.
MaxSystems == 2     \* systems ever registered in the World
MaxTokens == 3      \* tokens of a command line (the name and its arguments)
MaxQueue == 2       \* command lines buffered and not yet applied

None == 0

\* The command names "a", "ab" and "b", and the tokens used as arguments.
Names == {<<"a">>, <<"a", "b">>, <<"b">>}
ArgTokens == {<<"a">>, <<"a", "b">>}

------------------------------------------------------------------------------
(* Command lines: text.                                                     *)

\* The argument sequences of at most n arguments: consecutive arguments
\* differ, so that their order shows.
RECURSIVE ArgSeqs(_)
ArgSeqs(n) ==
    IF n = 0 THEN {<<>>}
    ELSE ArgSeqs(n - 1) \cup
         {Append(p[1], p[2]) :
             p \in {q \in {s \in ArgSeqs(n - 1) : Len(s) = n - 1} \X ArgTokens :
                       IF q[1] = <<>> THEN TRUE ELSE q[2] # q[1][Len(q[1])]}}

\* The token sequences a line is written from: none, or a name and arguments.
TokenSeqs(n) ==
    {<<>>} \cup (IF n = 0 THEN {} ELSE {<<name>> \o as : name \in Names, as \in ArgSeqs(n - 1)})

\* Two ways of writing a line: tokens separated by one space, or with a
\* leading tab, a space and a tab between tokens, and a trailing space.
Forms == {"plain", "padded"}
Lead(form) == IF form = "plain" THEN <<>> ELSE <<"\t">>
Sep(form) == IF form = "plain" THEN <<" ">> ELSE <<" ", "\t">>
Trail(form) == IF form = "plain" THEN <<>> ELSE <<" ">>

RECURSIVE Join(_, _)
Join(toks, sep) ==
    IF toks = <<>> THEN <<>>
    ELSE IF Len(toks) = 1 THEN Head(toks)
    ELSE Head(toks) \o sep \o Join(Tail(toks), sep)

Render(toks, form) == Lead(form) \o Join(toks, Sep(form)) \o Trail(form)

Lines == {Render(toks, form) : toks \in TokenSeqs(MaxTokens), form \in Forms}

\* The lines submitted through Commands: a bare name, or a name and one argument.
QueuedLines == {Render(<<n>>, "plain") : n \in Names} \cup {Render(<<<<"a">>, <<"a", "b">>>>, "plain")}

\* char::is_ascii_whitespace: space, tab, line feed, form feed, carriage return.
is_ascii_whitespace(c) == c \in {" ", "\t", "\n", "\f", "\r"}

\* str::trim: the line without its leading and trailing whitespace.
RECURSIVE trim_start(_)
trim_start(s) ==
    IF s # <<>> /\ is_ascii_whitespace(Head(s)) THEN trim_start(Tail(s)) ELSE s

RECURSIVE trim_end(_)
trim_end(s) ==
    IF s # <<>> /\ is_ascii_whitespace(s[Len(s)])
    THEN trim_end(SubSeq(s, 1, Len(s) - 1)) ELSE s

trim(s) == trim_end(trim_start(s))

\* str::split_ascii_whitespace: the maximal runs of non-whitespace characters,
\* in order; cur is the run being read and acc the runs already read.
RECURSIVE split_from(_, _, _)
split_from(s, cur, acc) ==
    IF s = <<>> THEN (IF cur = <<>> THEN acc ELSE Append(acc, cur))
    ELSE IF is_ascii_whitespace(Head(s))
         THEN split_from(Tail(s), <<>>, IF cur = <<>> THEN acc ELSE Append(acc, cur))
         ELSE split_from(Tail(s), Append(cur, Head(s)), acc)

split_ascii_whitespace(s) == split_from(s, <<>>, <<>>)

\* run_cli's parse: the tokens of the trimmed line.
parse(cli) == split_ascii_whitespace(trim(cli))

------------------------------------------------------------------------------
(* State.                                                                   *)

VARIABLES
    initialized,  \* the World holds the CliCommands resource
    commands,     \* CliCommands.commands: name -> CliCommandSystems
    registered,   \* the number of systems registered: the SystemIds are 1..registered
    running,      \* the SystemIds whose RegisteredSystem is taken out: executing
    stack,        \* the nested run_system calls in progress, innermost last
    worldQueue,   \* the command lines buffered by Commands of regular systems
    lastOp,       \* the operation just made, what it was given and what it reported
    panicked      \* the last operation panicked

vars == <<initialized, commands, registered, running, stack, worldQueue, lastOp, panicked>>

\* CliCommandSystems { noargs, args }
CliCommandSystems(noargs, args) == [noargs |-> noargs, args |-> args]

\* CliCommands::command_available
command_available(cmds, name) == name \in DOMAIN cmds

\* HashMap::remove, HashMap::insert
MapRemove(cmds, name) == [n \in (DOMAIN cmds) \ {name} |-> cmds[n]]
MapInsert(cmds, name, cmd) == [n \in (DOMAIN cmds) \cup {name} |-> IF n = name THEN cmd ELSE cmds[n]]

\* What an operation reports.
Report(kind, name, id, args, err) ==
    [kind |-> kind, name |-> name, id |-> id, args |-> args, err |-> err]
EmptyInput == Report("EmptyInput", <<>>, None, <<>>, "")
CommandNotFound(name) == Report("CommandNotFound", name, None, <<>>, "")
ArgumentsUnsupported(name) == Report("ArgumentsUnsupported", name, None, <<>>, "")
\* run_system / run_system_with_input is called on system id with input args.
Dispatch(name, id, args) == Report("Dispatch", name, id, args, "")
HandlerFailure(name, id, err) == Report("HandlerFailure", name, id, <<>>, err)

\* A run_system call in progress: the system, the command lines its
\* Commands buffered, and whether its body is running or its buffer is applied.
\* System None is the World's own command queue being applied.
Frame(id, pc, queue) == [id |-> id, pc |-> pc, queue |-> queue]

Top == stack[Len(stack)]
Below == SubSeq(stack, 1, Len(stack) - 1)

\* The system whose run makes the next operation; None is the host.
Caller == IF stack = <<>> THEN None ELSE Top.id

\* The entry of a name, both variants None when it has none.
Entry(cmds, name) == IF name \in DOMAIN cmds THEN cmds[name] ELSE CliCommandSystems(None, None)

\* The record of an operation: what it was given (name, name2, line), what it
\* reported and returned, and the state it was made in: the caller and the
\* entries the two names had.
Op(op, name, name2, line, reports, ok) ==
    [op |-> op, name |-> name, name2 |-> name2, line |-> line, reports |-> reports,
     ok |-> ok, caller |-> Caller, had |-> Entry(commands, name),
     had2 |-> Entry(commands, name2)]

\* No operation made, or the one made has been followed up.
Idle ==
    [op |-> "none", name |-> <<>>, name2 |-> <<>>, line |-> <<>>, reports |-> <<>>,
     ok |-> TRUE, caller |-> None, had |-> CliCommandSystems(None, None),
     had2 |-> CliCommandSystems(None, None)]

\* The program runs on: no panic, and the caller is past its last operation.
Ready == ~panicked /\ lastOp = Idle

\* Exclusive World access: the host between system runs, or a handler's body.
Exclusive == Ready /\ (IF stack = <<>> THEN TRUE ELSE Top.pc = "body")

\* The command lines buffered and not yet applied.
RECURSIVE Buffered(_)
Buffered(frames) ==
    IF frames = <<>> THEN 0 ELSE Len(Head(frames).queue) + Buffered(Tail(frames))

Init ==
    /\ initialized = FALSE
    /\ commands = [n \in {} |-> CliCommandSystems(None, None)]
    /\ registered = 0
    /\ running = {}
    /\ stack = <<>>
    /\ worldQueue = <<>>
    /\ lastOp = Idle
    /\ panicked = FALSE

------------------------------------------------------------------------------
(* The command table: register, unregister, rename.                         *)

\* register_clicommand_noargs, after register_system returned new_id.
register_noargs(cmds, name, new_id) ==
    IF name \in DOMAIN cmds
    THEN [cmds EXCEPT ![name].noargs = new_id]
    ELSE MapInsert(cmds, name, CliCommandSystems(new_id, None))

\* register_clicommand_args replacing the whole entry of the name.
register_args_whole_entry(cmds, name, new_id) ==
    MapInsert(cmds, name, CliCommandSystems(None, new_id))

\* register_clicommand_args, after register_system returned new_id.
register_args(cmds, name, new_id) ==
    IF name \in DOMAIN cmds
    THEN [cmds EXCEPT ![name].args = new_id]
    ELSE MapInsert(cmds, name, CliCommandSystems(None, new_id))

\* unregister_clicommand removing the noargs variant alone, and the entry
\* when no variant is left.
unregister_noargs_only(cmds, name) ==
    IF name \in DOMAIN cmds /\ cmds[name].args # None
    THEN [cmds EXCEPT ![name].noargs = None]
    ELSE MapRemove(cmds, name)

\* unregister_clicommand that leaves the table as it is.
unregister_ignored(cmds, name) == cmds

\* unregister_clicommand emptying the two slots and keeping the entry.
unregister_slots(cmds, name) ==
    IF name \in DOMAIN cmds
    THEN [cmds EXCEPT ![name] = CliCommandSystems(None, None)]
    ELSE cmds

\* unregister_clicommand on an initialised table: commands.remove(name).
unregister(cmds, name) == MapRemove(cmds, name)

\* unregister_clicommand reading the resource with resource_mut, which panics
\* when the World does not hold it.
unregister_outcome_resource_mut(init, cmds, name) ==
    IF ~init THEN [commands |-> cmds, panic |-> TRUE]
    ELSE [commands |-> unregister(cmds, name), panic |-> FALSE]

\* unregister_clicommand: get_resource_mut, and the return when the World does
\* not hold the resource; the table afterwards and whether it panicked.
unregister_outcome(init, cmds, name) ==
    IF ~init THEN [commands |-> cmds, panic |-> FALSE]
    ELSE [commands |-> unregister(cmds, name), panic |-> FALSE]

\* rename_command that drops the entry of the new name when the old name is
\* not registered.
rename_drops_new(cmds, old_name, new_name) ==
    IF old_name \in DOMAIN cmds
    THEN [commands |-> MapInsert(MapRemove(cmds, old_name), new_name, cmds[old_name]),
          ok |-> TRUE]
    ELSE [commands |-> MapRemove(cmds, new_name), ok |-> FALSE]

\* rename_command copying the entry: the old name keeps it too.
rename_copy(cmds, old_name, new_name) ==
    IF old_name \in DOMAIN cmds
    THEN [commands |-> MapInsert(cmds, new_name, cmds[old_name]), ok |-> TRUE]
    ELSE [commands |-> cmds, ok |-> FALSE]

\* rename_command: the table afterwards and whether it returned Ok(()).
rename(cmds, old_name, new_name) ==
    IF old_name \in DOMAIN cmds
    THEN [commands |-> MapInsert(MapRemove(cmds, old_name), new_name, cmds[old_name]),
          ok |-> TRUE]
    ELSE [commands |-> cmds, ok |-> FALSE]

register_clicommand_noargs(name) ==
    /\ Exclusive
    /\ registered < MaxSystems
    /\ initialized' = TRUE
    /\ registered' = registered + 1
    /\ commands' = register_noargs(commands, name, registered + 1)
    /\ lastOp' = Op("register_noargs", name, <<>>, <<>>, <<>>, TRUE)
    /\ UNCHANGED <<running, stack, worldQueue, panicked>>

register_clicommand_args(name) ==
    /\ Exclusive
    /\ registered < MaxSystems
    /\ initialized' = TRUE
    /\ registered' = registered + 1
    /\ commands' = register_args(commands, name, registered + 1)
    /\ lastOp' = Op("register_args", name, <<>>, <<>>, <<>>, TRUE)
    /\ UNCHANGED <<running, stack, worldQueue, panicked>>

unregister_clicommand(name) ==
    LET out == unregister_outcome(initialized, commands, name) IN
    /\ Exclusive
    /\ commands' = out.commands
    /\ panicked' = out.panic
    /\ lastOp' = Op("unregister", name, <<>>, <<>>, <<>>, ~out.panic)
    /\ UNCHANGED <<initialized, registered, running, stack, worldQueue>>

rename_command(old_name, new_name) ==
    /\ Exclusive
    /\ initialized
    /\ commands' = rename(commands, old_name, new_name).commands
    /\ lastOp' = Op("rename", old_name, new_name, <<>>, <<>>,
                    rename(commands, old_name, new_name).ok)
    /\ UNCHANGED <<initialized, registered, running, stack, worldQueue, panicked>>

------------------------------------------------------------------------------
(* Dispatch.                                                                *)

\* select with the noargs variant tried first whatever the arguments.
select_noargs_first(cmd, args) ==
    IF cmd.noargs # None
    THEN [id |-> cmd.noargs, input |-> <<>>, warn |-> args # <<>>]
    ELSE IF cmd.args # None
    THEN [id |-> cmd.args, input |-> args, warn |-> FALSE]
    ELSE [id |-> None, input |-> <<>>, warn |-> args # <<>>]

\* select without the warning about discarded arguments.
select_silent(cmd, args) ==
    IF args # <<>> /\ cmd.args # None
    THEN [id |-> cmd.args, input |-> args, warn |-> FALSE]
    ELSE IF cmd.noargs # None
    THEN [id |-> cmd.noargs, input |-> <<>>, warn |-> FALSE]
    ELSE IF cmd.args # None
    THEN [id |-> cmd.args, input |-> <<>>, warn |-> FALSE]
    ELSE [id |-> None, input |-> <<>>, warn |-> FALSE]

\* select with the args variant tried first whatever the arguments.
select_args_first(cmd, args) ==
    IF cmd.args # None
    THEN [id |-> cmd.args, input |-> args, warn |-> FALSE]
    ELSE IF cmd.noargs # None
    THEN [id |-> cmd.noargs, input |-> <<>>, warn |-> args # <<>>]
    ELSE [id |-> None, input |-> <<>>, warn |-> args # <<>>]

\* run_cli, lines 151-176: the system run for a command given args, its input,
\* and whether the "does not support args" warning is logged first.  None
\* stands for the panic "Missing CliCommand system registration".
select(cmd, args) ==
    IF args # <<>> /\ cmd.args # None
    THEN [id |-> cmd.args, input |-> args, warn |-> FALSE]
    ELSE IF cmd.noargs # None
    THEN [id |-> cmd.noargs, input |-> <<>>, warn |-> args # <<>>]
    ELSE IF cmd.args # None
    THEN [id |-> cmd.args, input |-> <<>>, warn |-> args # <<>>]
    ELSE [id |-> None, input |-> <<>>, warn |-> args # <<>>]

\* run_system without the check that the system is not executing.
run_system_reentrant(run, id, valid) ==
    IF ~valid THEN "InvalidParams" ELSE "Ok"

\* World::run_system_with_input up to the system's body: Recursive when the
\* RegisteredSystem is taken out (the system is executing), InvalidParams when
\* validate_param fails; the body runs otherwise.
run_system(run, id, valid) ==
    IF id \in run THEN "Recursive"
    ELSE IF ~valid THEN "InvalidParams"
    ELSE "Ok"

\* run_cli up to the handler's body: what it reports, the system whose body
\* starts (None when none does) with its input, and whether it panics.
Outcome(reports, start, input, panic) ==
    [reports |-> reports, start |-> start, input |-> input, panic |-> panic]

\* dispatch that leaves the system taken out when run_system returned an error.
dispatch_failed_taken_out(run, name, cmd, args, valid) ==
    LET sel == select(cmd, args)
        res == run_system(run, sel.id, valid)
        warned == IF sel.warn THEN <<ArgumentsUnsupported(name)>> ELSE <<>>
    IN  IF sel.id = None THEN Outcome(warned, None, <<>>, TRUE)
        ELSE IF res = "Ok"
        THEN Outcome(warned \o <<Dispatch(name, sel.id, sel.input)>>, sel.id, sel.input, FALSE)
        ELSE Outcome(warned \o <<Dispatch(name, sel.id, sel.input),
                                 HandlerFailure(name, sel.id, res)>>, sel.id, <<>>, FALSE)

\* dispatch that runs the command's other variant when run_system returned an
\* error for the selected one.
dispatch_fallback(run, name, cmd, args, valid) ==
    LET sel == select(cmd, args)
        res == run_system(run, sel.id, valid)
        other == IF sel.id = cmd.noargs THEN cmd.args ELSE cmd.noargs
        warned == IF sel.warn THEN <<ArgumentsUnsupported(name)>> ELSE <<>>
        failed == warned \o <<Dispatch(name, sel.id, sel.input),
                              HandlerFailure(name, sel.id, res)>>
    IN  IF sel.id = None THEN Outcome(warned, None, <<>>, TRUE)
        ELSE IF res = "Ok"
        THEN Outcome(warned \o <<Dispatch(name, sel.id, sel.input)>>, sel.id, sel.input, FALSE)
        ELSE IF other # None /\ run_system(run, other, TRUE) = "Ok"
        THEN Outcome(failed \o <<Dispatch(name, other, <<>>)>>, other, <<>>, FALSE)
        ELSE Outcome(failed, None, <<>>, FALSE)

dispatch(run, name, cmd, args, valid) ==
    LET sel == select(cmd, args)
        res == run_system(run, sel.id, valid)
        warned == IF sel.warn THEN <<ArgumentsUnsupported(name)>> ELSE <<>>
    IN  IF sel.id = None THEN Outcome(warned, None, <<>>, TRUE)
        ELSE IF res = "Ok"
        THEN Outcome(warned \o <<Dispatch(name, sel.id, sel.input)>>, sel.id, sel.input, FALSE)
        ELSE Outcome(warned \o <<Dispatch(name, sel.id, sel.input),
                                 HandlerFailure(name, sel.id, res)>>, None, <<>>, FALSE)

\* run_cli with the CliCommands resource read before the line is parsed.
run_cli_outcome_resource_first(init, cmds, run, cli, valid) ==
    LET toks == parse(cli) IN
    IF ~init THEN Outcome(<<>>, None, <<>>, TRUE)
    ELSE IF toks = <<>> THEN Outcome(<<EmptyInput>>, None, <<>>, FALSE)
    ELSE IF Head(toks) \notin DOMAIN cmds
    THEN Outcome(<<CommandNotFound(Head(toks))>>, None, <<>>, FALSE)
    ELSE dispatch(run, Head(toks), cmds[Head(toks)], Tail(toks), valid)

run_cli_outcome(init, cmds, run, cli, valid) ==
    LET toks == parse(cli) IN
    IF toks = <<>> THEN Outcome(<<EmptyInput>>, None, <<>>, FALSE)
    ELSE IF ~init THEN Outcome(<<>>, None, <<>>, TRUE)
    ELSE IF Head(toks) \notin DOMAIN cmds
    THEN Outcome(<<CommandNotFound(Head(toks))>>, None, <<>>, FALSE)
    ELSE dispatch(run, Head(toks), cmds[Head(toks)], Tail(toks), valid)

\* Commands::queue with the new command put before the buffered ones.
queue_front(buffer, cli) == <<cli>> \o buffer

\* Commands::queue: the command is appended to the buffer.
queue(buffer, cli) == Append(buffer, cli)

\* The systems taken out with system id put back when its body has returned.
taken_out_until_return(run, id, pc) == run \ {id}

\* The systems taken out with system id never put back.
taken_out_for_good(run, id, pc) == run

\* run_system_with_input after the system's body: the systems taken out once
\* system id has reached pc.  System::run is the body and then apply_deferred,
\* and the RegisteredSystem is inserted back when System::run has returned.
taken_out(run, id, pc) == IF pc = "restored" THEN run \ {id} ELSE run

\* World::run_cli called with the calls in progress being base.
run_cli(op, cli, base, valid) ==
    LET out == run_cli_outcome(initialized, commands, running, cli, valid) IN
    /\ lastOp' = Op(op, <<>>, <<>>, cli, out.reports, ~out.panic)
    /\ panicked' = out.panic
    /\ running' = IF out.start = None THEN running ELSE running \cup {out.start}
    /\ stack' = IF out.start = None THEN base
                ELSE Append(base, Frame(out.start, "body", <<>>))
    /\ UNCHANGED <<initialized, commands, registered, worldQueue>>

\* World::run_cli, by the host or by a handler's body.
RunCli(cli, valid) ==
    /\ Exclusive
    /\ run_cli("run_cli", cli, stack, valid)

\* Commands::run_cli in a regular system of the host: the line is buffered.
Submit(cli) ==
    /\ Ready
    /\ stack = <<>>
    /\ Len(worldQueue) < MaxQueue
    /\ worldQueue' = queue(worldQueue, cli)
    /\ lastOp' = Op("submit", <<>>, <<>>, cli, <<>>, TRUE)
    /\ UNCHANGED <<initialized, commands, registered, running, stack, panicked>>

\* Commands::run_cli in a handler: the line is buffered in the handler's queue.
Defer(cli) ==
    /\ Ready
    /\ stack # <<>>
    /\ Top.pc = "body"
    /\ Len(worldQueue) + Buffered(stack) < MaxQueue
    /\ stack' = [stack EXCEPT ![Len(stack)].queue = queue(@, cli)]
    /\ lastOp' = Op("defer", <<>>, <<>>, cli, <<>>, TRUE)
    /\ UNCHANGED <<initialized, commands, registered, running, worldQueue, panicked>>

\* The host applies the buffered commands of its regular systems.
ApplyBuffers ==
    /\ Ready
    /\ stack = <<>>
    /\ worldQueue # <<>>
    /\ stack' = <<Frame(None, "apply", worldQueue)>>
    /\ worldQueue' = <<>>
    /\ lastOp' = Op("apply_buffers", <<>>, <<>>, <<>>, <<>>, TRUE)
    /\ UNCHANGED <<initialized, commands, registered, running, panicked>>

\* CliRunCommand::apply: the next buffered line is run.
CliRunCommand_apply(valid) ==
    /\ Ready
    /\ stack # <<>>
    /\ Top.pc = "apply"
    /\ Top.queue # <<>>
    /\ run_cli("apply", Head(Top.queue),
               Append(Below, [Top EXCEPT !.queue = Tail(@)]), valid)

\* The handler's body returns: System::run goes on to apply its buffer.
Return ==
    /\ Ready
    /\ stack # <<>>
    /\ Top.pc = "body"
    /\ stack' = [stack EXCEPT ![Len(stack)].pc = "apply"]
    /\ running' = taken_out(running, Top.id, "apply")
    /\ lastOp' = Op("return", <<>>, <<>>, <<>>, <<>>, TRUE)
    /\ UNCHANGED <<initialized, commands, registered, worldQueue, panicked>>

\* The buffer is applied: run_system_with_input puts the RegisteredSystem back
\* and returns to run_cli, which returns.
Restore ==
    /\ Ready
    /\ stack # <<>>
    /\ Top.pc = "apply"
    /\ Top.queue = <<>>
    /\ running' = taken_out(running, Top.id, "restored")
    /\ stack' = Below
    /\ lastOp' = Op("restore", <<>>, <<>>, <<>>, <<>>, TRUE)
    /\ UNCHANGED <<initialized, commands, registered, worldQueue, panicked>>

\* The caller goes on after its operation.
Continue ==
    /\ ~panicked
    /\ lastOp # Idle
    /\ lastOp' = Idle
    /\ UNCHANGED <<initialized, commands, registered, running, stack, worldQueue, panicked>>

\* The host and the handlers with exclusive World access.
Next ==
    \/ \E name \in Names : register_clicommand_noargs(name)
    \/ \E name \in Names : register_clicommand_args(name)
    \/ \E name \in Names : unregister_clicommand(name)
    \/ \E old_name \in Names, new_name \in Names : rename_command(old_name, new_name)
    \/ \E cli \in Lines, valid \in BOOLEAN : RunCli(cli, valid)
    \/ Return
    \/ Restore
    \/ Continue

Spec == Init /\ [][Next]_vars

\* A handler's body returns, at every depth of nesting, and the code after an
\* operation and after the body runs on: run_cli is sequential code.
Fairness ==
    /\ \A depth \in 1..MaxSystems : SF_vars(Return /\ Len(stack) = depth)
    /\ WF_vars(Restore)
    /\ WF_vars(Continue)

SpecLive == Init /\ [][Next]_vars /\ Fairness

\* The same, and the systems that run command lines through Commands.
NextDeferred ==
    \/ \E name \in Names : register_clicommand_noargs(name)
    \/ \E name \in Names : register_clicommand_args(name)
    \/ \E name \in Names : unregister_clicommand(name)
    \/ \E old_name \in Names, new_name \in Names : rename_command(old_name, new_name)
    \/ \E cli \in QueuedLines, valid \in BOOLEAN : RunCli(cli, valid)
    \/ \E cli \in QueuedLines : Submit(cli)
    \/ \E cli \in QueuedLines : Defer(cli)
    \/ ApplyBuffers
    \/ \E valid \in BOOLEAN : CliRunCommand_apply(valid)
    \/ Return
    \/ Restore
    \/ Continue

SpecDeferred == Init /\ [][NextDeferred]_vars

------------------------------------------------------------------------------
(* Properties.                                                              *)

\* The last operation was a run_cli call, direct or of a buffered line.
IsRun == lastOp.op \in {"run_cli", "apply"}

\* The reports of the last operation that are of a kind.
Reported(kind) == {i \in 1..Len(lastOp.reports) : lastOp.reports[i].kind = kind}

\* The last operation called run_system on system id with input args, once,
\* and on no other system; the system's body then runs, unless run_system
\* returned the error it reports (the system was executing, or its
\* parameters were invalid), which run_cli reports in turn.
RanOnce(name, id, args, before) ==
    /\ ~panicked
    /\ Cardinality(Reported("Dispatch")) = 1
    /\ \/ /\ lastOp.reports = before \o <<Dispatch(name, id, args)>>
          /\ stack # <<>>
          /\ Top = Frame(id, "body", <<>>)
          /\ id \in running
       \/ /\ \E err \in {"Recursive", "InvalidParams"} :
                lastOp.reports = before \o <<Dispatch(name, id, args), HandlerFailure(name, id, err)>>
          /\ Caller = lastOp.caller

\* C1: run_cli of a line that names a command with an args variant and gives
\* one or more arguments runs the args system once, with exactly the arguments
\* of the line in their order, and does not run the noargs system, whether
\* the command has one or not.
C1_ArgsVariantGetsArguments ==
    \A toks \in TokenSeqs(MaxTokens), form \in Forms :
        ( /\ IsRun
          /\ lastOp.line = Render(toks, form)
          /\ Len(toks) >= 2
          /\ initialized
          /\ Head(toks) \in DOMAIN commands
          /\ commands[Head(toks)].args # None )
        => /\ RanOnce(Head(toks), commands[Head(toks)].args, Tail(toks), <<>>)
           /\ \A i \in Reported("Dispatch") : lastOp.reports[i].id # commands[Head(toks)].noargs

C1_Witness ==
    \E name \in Names, form \in Forms :
        /\ lastOp.op = "run_cli"
        /\ lastOp.line = Render(<<name, <<"a", "b">>, <<"a">>>>, form)
        /\ name \in DOMAIN commands
        /\ commands[name].args # None
        /\ commands[name].noargs # None
        /\ stack # <<>>
        /\ Top.id = commands[name].args
        /\ lastOp.reports = <<Dispatch(name, Top.id, << <<"a", "b">>, <<"a">> >>)>>

\* C2: run_cli of a line that names a command with only a noargs variant and
\* gives arguments reports that the command does not accept arguments, then
\* runs the noargs system once, the arguments discarded.
C2_NoargsOnlyWarnsAndRuns ==
    \A toks \in TokenSeqs(MaxTokens), form \in Forms :
        ( /\ IsRun
          /\ lastOp.line = Render(toks, form)
          /\ Len(toks) >= 2
          /\ initialized
          /\ Head(toks) \in DOMAIN commands
          /\ commands[Head(toks)].args = None
          /\ commands[Head(toks)].noargs # None )
        => RanOnce(Head(toks), commands[Head(toks)].noargs, <<>>,
                   <<ArgumentsUnsupported(Head(toks))>>)

C2_Witness ==
    \E name \in Names, form \in Forms :
        /\ lastOp.op = "run_cli"
        /\ lastOp.line = Render(<<name, <<"a">>, <<"a", "b">>>>, form)
        /\ name \in DOMAIN commands
        /\ commands[name].args = None
        /\ stack # <<>>
        /\ Top.id = commands[name].noargs
        /\ lastOp.reports = <<ArgumentsUnsupported(name), Dispatch(name, Top.id, <<>>)>>

\* C3: run_cli of a line that is the name of a registered command alone runs
\* the noargs system when the command has one, also when it has an args
\* variant too, and otherwise runs the args system with no arguments.
C3_NameAloneRuns ==
    \A name \in Names, form \in Forms :
        ( /\ IsRun
          /\ lastOp.line = Render(<<name>>, form)
          /\ initialized
          /\ name \in DOMAIN commands )
        => IF commands[name].noargs # None
           THEN RanOnce(name, commands[name].noargs, <<>>, <<>>)
           ELSE /\ commands[name].args # None
                /\ RanOnce(name, commands[name].args, <<>>, <<>>)

C3_Witness ==
    \E name \in Names :
        /\ lastOp.op = "run_cli"
        /\ lastOp.line = Render(<<name>>, "padded")
        /\ name \in DOMAIN commands
        /\ commands[name].args # None
        /\ commands[name].noargs # None
        /\ stack # <<>>
        /\ Top.id = commands[name].noargs
        /\ lastOp.reports = <<Dispatch(name, Top.id, <<>>)>>

\* C4: in every state of the table, also when no command was ever registered,
\* run_cli of a line whose first token names no registered command reports
\* CommandNotFound, runs no system and returns: it does not panic.
C4_NotFoundReturns ==
    \A toks \in TokenSeqs(MaxTokens), form \in Forms :
        ( /\ IsRun
          /\ lastOp.line = Render(toks, form)
          /\ toks # <<>>
          /\ Head(toks) \notin DOMAIN commands )
        => /\ ~panicked
           /\ lastOp.reports = <<CommandNotFound(Head(toks))>>

\* C5: in every state of the table, run_cli of an empty line or of a line of
\* whitespace reports EmptyInput and nothing else, runs no system, does not
\* panic and leaves the table and the systems executing as they were.
C5_BlankLineReportsEmptyInput ==
    [][ (/\ lastOp'.op \in {"run_cli", "apply"}
         /\ lastOp'.line \in {Render(<<>>, form) : form \in Forms})
        => /\ lastOp'.reports = <<EmptyInput>>
           /\ ~panicked'
           /\ commands' = commands
           /\ initialized' = initialized
           /\ running' = running
           /\ Len(stack') = Len(stack) ]_vars

C5_Witness ==
    /\ lastOp.op = "run_cli"
    /\ lastOp.line = Render(<<>>, "padded")
    /\ lastOp.line # <<>>
    /\ lastOp.reports = <<EmptyInput>>
    /\ ~initialized
    /\ ~panicked

\* The other entries of the table are as they were before the step.
OthersKept(names) ==
    /\ (DOMAIN commands') \ names = (DOMAIN commands) \ names
    /\ \A other \in (DOMAIN commands) \ names : commands'[other] = commands[other]

\* C6: registering a handler for a name and a kind succeeds and changes that
\* slot alone: an absent name gets an entry with that variant only; for a name
\* with an entry the variant becomes the new system, and the other variant of
\* the name and the entries of the other names are as they were.
C6_RegisterChangesOneSlot ==
    [][ \A name \in Names :
          /\ (lastOp'.op = "register_noargs" /\ lastOp'.name = name)
             => /\ lastOp'.ok /\ ~panicked' /\ initialized'
                /\ registered' = registered + 1
                /\ name \in DOMAIN commands'
                /\ commands'[name].noargs = registered'
                /\ commands'[name].args = Entry(commands, name).args
                /\ OthersKept({name})
          /\ (lastOp'.op = "register_args" /\ lastOp'.name = name)
             => /\ lastOp'.ok /\ ~panicked' /\ initialized'
                /\ registered' = registered + 1
                /\ name \in DOMAIN commands'
                /\ commands'[name].args = registered'
                /\ commands'[name].noargs = Entry(commands, name).noargs
                /\ OthersKept({name}) ]_vars

C6_Witness ==
    \E name \in Names :
        /\ lastOp.op = "register_args"
        /\ lastOp.name = name
        /\ lastOp.had.noargs # None
        /\ lastOp.had.args = None
        /\ commands[name] = CliCommandSystems(lastOp.had.noargs, registered)

\* C7 as claimed: unregistering a command that has both variants leaves the
\* command registered with its other variant.
C7_UnregisterKeepsOtherVariant ==
    [][ \A name \in Names :
          ( /\ lastOp'.op = "unregister"
            /\ lastOp'.name = name
            /\ name \in DOMAIN commands
            /\ commands[name].noargs # None
            /\ commands[name].args # None )
          => name \in DOMAIN commands' ]_vars

\* C7, amended: unregister_clicommand takes a name and no variant; it removes
\* the entry of the name with both its variants, so that command_available is
\* false afterwards, and leaves the entries of the other names as they were.
C7_UnregisterRemovesEntry ==
    [][ \A name \in Names :
          (lastOp'.op = "unregister" /\ lastOp'.name = name)
          => /\ ~command_available(commands', name)
             /\ OthersKept({name})
             /\ registered' = registered /\ running' = running
             /\ ~panicked' ]_vars

C7_Witness ==
    /\ lastOp.op = "unregister"
    /\ lastOp.had.noargs # None
    /\ lastOp.had.args # None
    /\ ~command_available(commands, lastOp.name)

\* C8: rename_command to a new name that names a command fails and leaves the
\* table as it was: the old and the new name keep their handlers.  (Stated
\* for two different names.)
C8_RenameOntoCommandFails ==
    [][ \A old_name \in Names, new_name \in Names :
          ( /\ lastOp'.op = "rename"
            /\ lastOp'.name = old_name /\ lastOp'.name2 = new_name
            /\ old_name # new_name
            /\ old_name \in DOMAIN commands
            /\ new_name \in DOMAIN commands )
          => /\ ~lastOp'.ok
             /\ commands' = commands ]_vars

\* C9: rename_command of a registered name to a free name returns Ok and
\* moves the entry: the old name is not available, the new name is and holds
\* the two variants the old name held, and the other entries are as they were.
C9_RenameMovesEntry ==
    [][ \A old_name \in Names, new_name \in Names :
          ( /\ lastOp'.op = "rename"
            /\ lastOp'.name = old_name /\ lastOp'.name2 = new_name
            /\ old_name \in DOMAIN commands
            /\ new_name \notin DOMAIN commands )
          => /\ lastOp'.ok
             /\ ~command_available(commands', old_name)
             /\ command_available(commands', new_name)
             /\ commands'[new_name] = commands[old_name]
             /\ OthersKept({old_name, new_name}) ]_vars

C9_Witness ==
    /\ lastOp.op = "rename"
    /\ lastOp.ok
    /\ lastOp.had2 = CliCommandSystems(None, None)
    /\ lastOp.had.noargs # None
    /\ lastOp.name # lastOp.name2
    /\ lastOp.name \notin DOMAIN commands
    /\ lastOp.name2 \in DOMAIN commands
    /\ commands[lastOp.name2] = lastOp.had
    /\ \E other \in DOMAIN commands : other # lastOp.name2

\* The system a line that is a name alone runs, given the entry of the name.
RunByNameAlone(cmd) == IF cmd.noargs # None THEN cmd.noargs ELSE cmd.args

\* The last operation is a handler's run_cli of a name alone whose handler is
\* the caller itself.
SelfInvocation(name) ==
    /\ lastOp.op = "run_cli"
    /\ lastOp.line \in {Render(<<name>>, form) : form \in Forms}
    /\ lastOp.caller # None
    /\ name \in DOMAIN commands
    /\ RunByNameAlone(commands[name]) = lastOp.caller

\* C10 as claimed: a handler of command A that runs the line "A" while it
\* executes gets CommandNotFound for it.
C10_SelfInvocationNotFound ==
    \A name \in Names :
        SelfInvocation(name) => lastOp.reports = <<CommandNotFound(name)>>

\* C10, amended: a handler of command A that runs the line "A" while it
\* executes is not run again: the entry of A stays in the table, run_system
\* returns the Recursive error and run_cli reports that the command failed to
\* run.  That error comes only for a system that is executing, so that after
\* the handler returned A runs again.
C10_SelfInvocationFailsRecursive ==
    /\ \A name \in Names :
          SelfInvocation(name)
          => /\ lastOp.reports = <<Dispatch(name, lastOp.caller, <<>>),
                                   HandlerFailure(name, lastOp.caller, "Recursive")>>
             /\ ~panicked
             /\ command_available(commands, name)
             /\ Top.id = lastOp.caller /\ Top.pc = "body"
             /\ Cardinality({i \in 1..Len(stack) : stack[i].id = lastOp.caller}) = 1
    /\ \A i \in Reported("HandlerFailure") :
          lastOp.reports[i].err = "Recursive"
          => \E j \in 1..Len(stack) : stack[j].id = lastOp.reports[i].id
    /\ running = {stack[j].id : j \in 1..Len(stack)} \ {None}

C10_Witness ==
    \E name \in Names :
        /\ SelfInvocation(name)
        /\ Len(stack) = 1
        /\ lastOp.reports[2] = HandlerFailure(name, Top.id, "Recursive")

------------------------------------------------------------------------------
(* Invocation: the round trip, the buffered lines, nesting.                 *)

\* The systems with a run_system call in progress.
Executing(frames) == {frames[i].id : i \in 1..Len(frames)} \ {None}

Pending ==
    (IF stack = <<>> THEN <<>>
     ELSE IF stack[1].id = None THEN stack[1].queue ELSE <<>>) \o worldQueue

\* C12: Commands::run_cli only buffers the line: the submission runs no system
\* and reports nothing, and the line is put behind the lines already buffered.
\* A buffer is drained from its head, one line per dispatch, by the World
\* applying it and not by a body that runs; no other step changes a buffer,
\* and a system call ends with its buffer empty.  So every buffered line is
\* dispatched once, in the order of submission.
C12_DeferredLinesInOrder ==
    [][ /\ (lastOp'.op = "submit")
           => /\ Pending' = Append(Pending, lastOp'.line)
              /\ stack' = stack
              /\ running' = running
              /\ lastOp'.reports = <<>>
        /\ (lastOp'.op = "defer")
           => /\ stack' = [stack EXCEPT ![Len(stack)].queue = Append(@, lastOp'.line)]
              /\ Pending' = Pending
              /\ running' = running
              /\ lastOp'.reports = <<>>
        /\ (lastOp'.op = "apply")
           => /\ Top.pc = "apply"
              /\ Top.queue # <<>>
              /\ lastOp'.line = Head(Top.queue)
              /\ Len(stack') >= Len(stack)
              /\ stack'[Len(stack)] = [Top EXCEPT !.queue = Tail(@)]
              /\ SubSeq(stack', 1, Len(stack) - 1) = Below
              /\ worldQueue' = worldQueue
              /\ Cardinality({i \in 1..Len(lastOp'.reports) :
                                 lastOp'.reports[i].kind = "Dispatch"}) <= 1
              /\ \A i \in 1..Len(lastOp'.reports) :
                    lastOp'.reports[i].name = Head(parse(lastOp'.line))
        /\ (lastOp'.op \notin {"submit", "defer", "apply"})
           => /\ Pending' = Pending
              /\ \A i \in 1..Len(stack) :
                    IF i <= Len(stack') THEN stack'[i].queue = stack[i].queue
                    ELSE stack[i].queue = <<>> ]_vars

\* The first of two lines submitted is applied and its handler runs; the
\* second is still buffered.
C12_Witness ==
    /\ lastOp.op = "apply"
    /\ Len(stack) = 2
    /\ stack[1].id = None
    /\ Len(stack[1].queue) = 1
    /\ stack[1].queue[1] # lastOp.line
    /\ Cardinality(Reported("Dispatch")) = 1
    /\ Top.pc = "body"

\* C13: in every state reached by register, unregister, rename and run_cli,
\* from the host or from inside handlers, every entry of the table holds a
\* noargs or an args system, and each is a registered system; so the panic
\* "Missing CliCommand system registration" is never reached: run_cli panics
\* only where the World does not hold the CliCommands resource.
C13_EntriesHoldAVariant ==
    /\ \A name \in DOMAIN commands :
          /\ commands[name].noargs # None \/ commands[name].args # None
          /\ commands[name].noargs \in 0..registered
          /\ commands[name].args \in 0..registered
          /\ select(commands[name], <<>>).id # None
          /\ \A args \in ArgSeqs(MaxTokens - 1) : select(commands[name], args).id # None
    /\ panicked => ~initialized

\* A handler renamed a command that another registration had given its second
\* variant, and an entry with one variant is in the table as well.
C13_Witness ==
    /\ lastOp.op = "rename"
    /\ lastOp.caller # None
    /\ lastOp.ok
    /\ lastOp.name # lastOp.name2
    /\ lastOp.had2 # CliCommandSystems(None, None)
    /\ commands[lastOp.name2] = lastOp.had
    /\ lastOp.had.noargs = None

\* C14: under every chain of nested run_cli calls no system is executing
\* twice: the calls in progress are of different systems, a system that is
\* executing is refused (Recursive) and not run, and the nesting is no deeper
\* than the number of handlers registered as systems of the World.
C14_NoHandlerActiveTwice ==
    /\ \A i \in 1..Len(stack), j \in 1..Len(stack) :
          (i # j) => (stack[i].id # stack[j].id)
    /\ Len(stack) <= registered
    /\ running = Executing(stack)
    /\ \A i \in Reported("Dispatch") :
          (lastOp.reports[i].id \in Executing(Below) /\ stack # <<>>)
          => Top.id # lastOp.reports[i].id

\* A's handler runs B, whose handler runs A: the call is refused.
C14_Witness ==
    \E nameA \in Names, nameB \in Names :
        /\ nameA # nameB
        /\ Len(stack) = 2
        /\ lastOp.op = "run_cli"
        /\ lastOp.caller = stack[2].id
        /\ nameA \in DOMAIN commands /\ nameB \in DOMAIN commands
        /\ RunByNameAlone(commands[nameA]) = stack[1].id
        /\ RunByNameAlone(commands[nameB]) = stack[2].id
        /\ lastOp.line = Render(<<nameA>>, "plain")
        /\ lastOp.reports = <<Dispatch(nameA, stack[1].id, <<>>),
                              HandlerFailure(nameA, stack[1].id, "Recursive")>>

\* C15: a system that a run_cli call has taken out is put back: when every
\* handler's body returns, a system that is executing is later not executing,
\* and whenever no call is in progress no system is taken out.
C15_CheckedOutIsRestored ==
    /\ [](stack = <<>> => running = {})
    /\ \A id \in 1..MaxSystems : (id \in running) ~> (id \notin running)

\* The outermost call has restored its system and returned.
C15_Witness ==
    /\ lastOp.op = "restore"
    /\ stack = <<>>
    /\ running = {}
    /\ registered > 0
    /\ ~panicked

\* The last operation was the restoration of a system that no entry of the
\* table holds: its command was unregistered while it was executing.
RestoredUnregistered(id) ==
    /\ lastOp.op = "restore"
    /\ id \in 1..registered
    /\ id \notin running
    /\ \A name \in DOMAIN commands : id \notin {commands[name].noargs, commands[name].args}

\* C16 as claimed: when the run of a handler ends, the handler is in the
\* table: an entry removed while the handler was executing is there again.
\* (Stated where one system was ever registered: the handler was in the table
\* when it was called, and only an unregister made while it was executing can
\* have taken it from the table.)
C16_UnregisteredHandlerReCreated ==
    [][ (lastOp'.op = "restore" /\ registered = 1)
        => \E name \in DOMAIN commands' :
              Top.id \in {commands'[name].noargs, commands'[name].args} ]_vars

\* C16, amended: unregistering a command while its handler is executing
\* removes the entry for good: the restoration puts the system back in the
\* World's systems and leaves the table as it is, so that the name stays
\* unavailable until it is registered again.
C16_UnregisteredStaysRemoved ==
    [][ /\ (lastOp'.op \in {"return", "restore"}) => (commands' = commands)
        /\ \A name \in Names :
              ( /\ lastOp'.op = "unregister"
                /\ lastOp'.name = name
                /\ lastOp'.caller # None
                /\ lastOp'.caller \in {Entry(commands, name).noargs, Entry(commands, name).args} )
              => /\ ~command_available(commands', name)
                 /\ lastOp'.caller \in running'
                 /\ \A other \in DOMAIN commands' :
                       lastOp'.caller \in {commands'[other].noargs, commands'[other].args}
                       => other \in DOMAIN commands /\ commands[other] = commands'[other]
        /\ \A name \in Names :
              (name \in DOMAIN commands' /\ name \notin DOMAIN commands)
              => lastOp'.op \in {"register_noargs", "register_args", "rename"} ]_vars

\* The handler of a command has unregistered the command and has returned:
\* the system is restored and the command is not available.
C16_Witness ==
    \E id \in 1..registered :
        /\ RestoredUnregistered(id)
        /\ stack = <<>>
        /\ commands = [n \in {} |-> CliCommandSystems(None, None)]
        /\ registered = 1

\* C17: within one run of a system the order is: taken out, body, buffer
\* applied, put back.  A line is buffered by a body that runs; a handler's
\* buffered lines are dispatched when its body has returned and while the
\* system is still taken out; the system is put back with its buffer empty.
\* So a handler's own command line, buffered by it, finds the handler
\* executing: it is refused (Recursive) and the handler is not run by it.
C17_DeferredAppliedBeforePutBack ==
    [][ /\ (lastOp'.op = "defer")
           => /\ Top.pc = "body"
              /\ Top.id \in running'
        /\ (lastOp'.op = "return")
           => /\ Top.pc = "body"
              /\ stack'[Len(stack)].pc = "apply"
              /\ running' = running
        /\ (lastOp'.op = "apply" /\ lastOp'.caller # None)
           => /\ Top.pc = "apply"
              /\ Top.id = lastOp'.caller
              /\ Top.id \in running
              /\ Top.id \in running'
              /\ stack'[Len(stack)].id = Top.id
              /\ \A i \in 1..Len(lastOp'.reports) :
                    ( /\ lastOp'.reports[i].kind = "Dispatch"
                      /\ lastOp'.reports[i].id = Top.id )
                    => /\ Len(stack') = Len(stack)
                       /\ i < Len(lastOp'.reports)
                       /\ lastOp'.reports[i + 1] =
                             HandlerFailure(lastOp'.reports[i].name, Top.id, "Recursive")
        /\ (lastOp'.op = "restore")
           => /\ Top.pc = "apply"
              /\ Top.queue = <<>>
              /\ Top.id \notin running' ]_vars

\* The handler of a command has buffered the command's line and has returned:
\* the line is dispatched, the handler is still taken out and is not run.
C17_Witness ==
    \E name \in Names :
        /\ lastOp.op = "apply"
        /\ lastOp.caller # None
        /\ lastOp.line = Render(<<name>>, "plain")
        /\ Len(stack) = 1
        /\ Top = Frame(lastOp.caller, "apply", <<>>)
        /\ running = {lastOp.caller}
        /\ lastOp.reports = <<Dispatch(name, lastOp.caller, <<>>),
                              HandlerFailure(name, lastOp.caller, "Recursive")>>

\* C18: unregister_clicommand of a name that is not registered changes
\* nothing, in every state of the table and also in a World that does not hold
\* the CliCommands resource: it returns, reports nothing and does not panic,
\* the entries are as they were and the resource is not created.
C18_UnregisterAbsentIsNoOp ==
    [][ \A name \in Names :
          ( /\ lastOp'.op = "unregister"
            /\ lastOp'.name = name
            /\ name \notin DOMAIN commands )
          => /\ lastOp'.ok
             /\ ~panicked'
             /\ lastOp'.reports = <<>>
             /\ commands' = commands
             /\ initialized' = initialized
             /\ registered' = registered
             /\ running' = running
             /\ stack' = stack ]_vars

\* unregister_clicommand has returned in a World without the resource.
C18_Witness ==
    /\ lastOp.op = "unregister"
    /\ lastOp.name \in Names
    /\ lastOp.ok
    /\ ~initialized
    /\ ~panicked
    /\ DOMAIN commands = {}

\* C19: one run_cli call runs at most one system, the one selected from the
\* entry and the arguments before any system is run.  When run_system returns
\* an error for it, run_cli reports the failure and returns: no system is
\* started, and the command's other variant is not tried.
C19_NoFallbackToOtherVariant ==
    \A toks \in TokenSeqs(MaxTokens), form \in Forms :
        ( /\ IsRun
          /\ lastOp.line = Render(toks, form)
          /\ toks # <<>>
          /\ initialized
          /\ Head(toks) \in DOMAIN commands )
        => /\ Cardinality(Reported("Dispatch")) = 1
           /\ \A i \in Reported("Dispatch") :
                 lastOp.reports[i].id = select(commands[Head(toks)], Tail(toks)).id
           /\ Cardinality(Reported("HandlerFailure")) <= 1
           /\ IF Reported("HandlerFailure") # {}
              THEN /\ Caller = lastOp.caller
                   /\ lastOp.reports[Len(lastOp.reports)].kind = "HandlerFailure"
                   /\ lastOp.reports[Len(lastOp.reports)].id =
                         select(commands[Head(toks)], Tail(toks)).id
              ELSE /\ stack # <<>>
                   /\ Top = Frame(select(commands[Head(toks)], Tail(toks)).id, "body", <<>>)

\* The noargs handler of a command with two variants runs the command's name:
\* the noargs system is executing and is refused; the args system, which is
\* not executing, is not run.
C19_Witness ==
    \E name \in Names :
        /\ lastOp.op = "run_cli"
        /\ lastOp.line = Render(<<name>>, "plain")
        /\ name \in DOMAIN commands
        /\ commands[name].noargs # None
        /\ commands[name].args # None
        /\ commands[name].args \notin running
        /\ lastOp.reports = <<Dispatch(name, commands[name].noargs, <<>>),
                              HandlerFailure(name, commands[name].noargs, "Recursive")>>
        /\ Len(stack) = 1
        /\ Top.id = commands[name].noargs

\* C20: rename_command with an old name that is not registered returns Err
\* and leaves the table as it was, whatever the new name: a free name, the
\* name of a command, which keeps its handlers, or the old name itself.
C20_RenameAbsentFails ==
    [][ \A old_name \in Names, new_name \in Names :
          ( /\ lastOp'.op = "rename"
            /\ lastOp'.name = old_name /\ lastOp'.name2 = new_name
            /\ old_name \notin DOMAIN commands )
          => /\ ~lastOp'.ok
             /\ ~panicked'
             /\ commands' = commands
             /\ registered' = registered
             /\ running' = running
             /\ stack' = stack ]_vars

\* rename_command has returned Err for an absent old name and the name of a
\* command as the new name: the command has the handlers it had.
C20_Witness ==
    /\ lastOp.op = "rename"
    /\ ~lastOp.ok
    /\ lastOp.name \notin DOMAIN commands
    /\ lastOp.had = CliCommandSystems(None, None)
    /\ lastOp.name2 \in DOMAIN commands
    /\ lastOp.had2 # CliCommandSystems(None, None)
    /\ commands[lastOp.name2] = lastOp.had2

====
